---- MODULE Spec2Model ----
(***************************************************************************)
(* go-healthz: the check registry (Checker), the per-check loops (check)   *)
(* and the aggregate Status computation with its HTTP handler.             *)
(*                                                                         *)
(* Time passes in steps of one second (Advance); timers and tickers count  *)
(* the seconds they have left.  The wall clock and the runtime snapshot,   *)
(* which nothing else in the program reads, are followed only by the       *)
(* specification that starts with the clock on.  Every check               *)
(* created by Register or Set is an object with its own identity (an       *)
(* index into `ch`), its own goroutine (`pc`), its own mutex (held while   *)
(* pc = "eval", see doOnce) and its own stop channel of capacity 1.        *)
(* The aggregator mutex is held by Register, Set, Deregister, Close,       *)
(* SetMeta and DeleteMeta for the whole call; none of them blocks inside,  *)
(* so each is one action.  Status holds it across the reads of the         *)
(* entries, which can block on an entry's mutex, so it is several steps.   *)
(***************************************************************************)
EXTENDS Integers, Sequences, FiniteSets, TLC

\* ---------------------------------------------------------------- bounds
MaxChecks == 2          \* check objects ever created by Register/Set
RuntimeTTL == 2         \* Config.RuntimeTTL, in seconds
MaxTime == 4            \* seconds the wall clock is followed for

\* ------------------------------------------------------ program constants
DefaultCheckPeriod == 1
StatusOKCode == 200
StatusServiceUnavailable == 503
StatusInternalServerError == 500

StatusOK == "OK"
StatusUnavailable == "Unavailable"
StatusWarning == "Warning"

\* ----------------------------------------------------------------- inputs
\* the names the registry can hold; Separated are those of them that
\* contain the separator "/" of the flattened keys
Names == {"a", "b", "a/z"}
Separated == {"a/z"}
Periods == {0, 1}                   \* period arguments of Register
Expiries == {0, 1}               \* expiry arguments of Set
MetaKeys == {"version"}
MetaVals == {"1.0.0"}

\* a metadata value encoding/json cannot encode (a channel, a func)
Unencodable == "make(chan int)"
\* metadata for the callers that set more than one key
AllMetaKeys == {"version", "commit"}
AllMetaVals == {"1.0.0", Unencodable}

Ids == 1 .. MaxChecks
NoCheck == 0                        \* the nil *check

VARIABLES
    mutex,      \* Checker.mutex: "free" or "status"
    checks,     \* Checker.checks: name -> check id, NoCheck when absent
    metadata,   \* Checker.metadata: function from the keys present
    nextId,     \* the next check object to allocate
    ch,         \* the check objects and their goroutines
    st,         \* the thread executing Status() / handle()
    ret,        \* the Status value that call returned
    resp,       \* the HTTP response that call wrote
    clock,      \* time.Now(), in seconds since the zero time.Time
    runtime,    \* Checker.runtime: the stored runtime snapshot
    str         \* what a caller of ScopedMultiError.Error() got

vars ==
    <<mutex, checks, metadata, nextId, ch, st, ret, resp, clock, runtime,
      str>>

\* ------------------------------------------------------------ error values
\* A Go error value.  `by` is the check object whose goroutine or creator
\* produced the value (history: it never influences what the program does).
Nil == [t |-> "nil"]
New(msg, e) == [t |-> "error", msg |-> msg, by |-> e]
Warn(msg, e) == [t |-> "warning", msg |-> msg, by |-> e]
Expired(d, e) == [t |-> "expired", expiry |-> d, by |-> e]

\* ScopedMultiError: a map from sub-key to error
Scoped(m, e) == [t |-> "sme", m |-> m, by |-> e]

\* fmt.Errorf("wrapped: %w", err): an error that unwraps to err
Wrap(err, e) == [t |-> "wrapped", err |-> err, by |-> e]

\* time.Duration.String() for whole seconds below one hour
DurationString(d) ==
    IF d < 60 THEN ToString(d) \o "s"
    ELSE ToString(d \div 60) \o "m" \o ToString(d % 60) \o "s"

\* Expired.Error
ExpiredError(d) == "status expired after " \o DurationString(d)

RECURSIVE Error(_)
Error(err) ==
    CASE err.t = "error" -> err.msg
      [] err.t = "warning" -> err.msg
      [] err.t = "expired" -> ExpiredError(err.expiry)
      [] err.t = "wrapped" -> "wrapped: " \o Error(err.err)

\* a classifier that knows no warnings
IsWarningNever(err) == FALSE

IsWarning(err) == err.t = "warning"

\* what an evaluation function may return, and what Set may be given
FnResults(e) == {Nil, New("bad thing happened", e), Warn("test warning", e)}
SetErrors(e) ==
    {Nil, New("static error", e), Warn("test warning", e),
     Scoped([k \in {"e1", "w1"} |->
                IF k = "e1" THEN New("e1", e) ELSE Warn("w1", e)], e)}

\* the errors Set is given when the flattening is exercised: plain values,
\* warnings wrapped once and twice, ScopedMultiErrors with nil sub-errors
\* and without sub-keys, and ScopedMultiErrors inside ScopedMultiErrors
SubKeys == {"x", "y"}
ScopedOver(V, e) ==
    {Scoped(m, e) : m \in UNION {[K -> V] : K \in SUBSET SubKeys}}
PlainErrors(e) == {Nil, New("e", e), Warn("w", e)}
WrappedErrors(e) ==
    {Wrap(Warn("foo", e), e), Wrap(Wrap(Warn("foo", e), e), e)}
InnerErrors(e) == {Scoped(m, e) : m \in [SubKeys -> PlainErrors(e) \ {Nil}]}
NestedErrors(e) ==
    {Scoped("x" :> i, e) : i \in InnerErrors(e)}
        \cup {Scoped(("x" :> i) @@ ("y" :> l), e) :
                 i \in InnerErrors(e), l \in PlainErrors(e) \ {Nil}}
DeepErrors(e) ==
    PlainErrors(e) \cup WrappedErrors(e)
        \cup ScopedOver(PlainErrors(e), e) \cup NestedErrors(e)

\* ------------------------------------------------ ScopedMultiError.Error
\* The sub-keys the callers of Error() use, in the ascending byte-wise
\* order of sort.Strings ("ba" is a prefix of "bar"), and the test s < t of
\* that order.
ErrorKeys == <<"ba", "bar", "foo">>
Rank(k) == CHOOSE i \in DOMAIN ErrorKeys : ErrorKeys[i] = k
Less(s, t) == Rank(s) < Rank(t)

\* the ScopedMultiErrors Error() is called on, and the orders in which the
\* range over a map with the keys K can visit them
ErrorMaps(e) ==
    UNION {[K -> {Nil, New("foo-error", e), Warn("bar-warning", e)}] :
              K \in SUBSET {ErrorKeys[i] : i \in DOMAIN ErrorKeys}}
Orders(K) ==
    {o \in [1 .. Cardinality(K) -> K] :
        \A i, j \in 1 .. Cardinality(K) : i # j => o[i] # o[j]}

\* a sort that leaves the keys as the range visited them
SortStringsNot(keys) == keys

\* sort.Strings(keys)
RECURSIVE SortStrings(_)
RECURSIVE InsertString(_, _)
SortStrings(keys) ==
    IF keys = <<>> THEN <<>>
    ELSE InsertString(Head(keys), SortStrings(Tail(keys)))
InsertString(k, sorted) ==
    IF sorted = <<>> THEN <<k>>
    ELSE IF Less(Head(sorted), k)
         THEN <<Head(sorted)>> \o InsertString(k, Tail(sorted))
         ELSE <<k>> \o sorted

\* %v of a sub-error: its Error(), "<nil>" for a nil error
FormatV(err) == IF err = Nil THEN "<nil>" ELSE Error(err)

\* the loop over the sorted keys: fmt.Fprintf(&sb, "\n%s: %v", key, e[key])
RECURSIVE WriteKeys(_, _)
WriteKeys(m, keys) ==
    IF keys = <<>> THEN ""
    ELSE "\n" \o Head(keys) \o ": " \o FormatV(m[Head(keys)])
            \o WriteKeys(m, Tail(keys))

\* ScopedMultiError.Error, the range over the map visiting the keys in the
\* order given
ScopedMultiErrorError(m, order) ==
    "multiple errors:" \o WriteKeys(m, SortStrings(order))

\* ------------------------------------------------------------------- maps
EmptyMap == <<>>
Put(m, k, v) == (k :> v) @@ m
Has(m, k) == k \in DOMAIN m
\* a delete that empties the map
DeleteAll(m, k) == <<>>

Delete(m, k) == [x \in DOMAIN m \ {k} |-> m[x]]

\* -------------------------------------------------------------- the checks
\* Program state of a check: pc (its goroutine), static, period, expiry, err,
\* stopch (the buffered stop requests), left (seconds until its timer or
\* ticker fires), tick (the ticks buffered in the ticker's channel).
\* fn is the evaluation function: the caller's, or the closure RegisterRemote
\* makes from its options.
\* History, for stating properties only: name, age (seconds since Set,
\* counted up to expiry), given (the error Set was given), evaluated and last
\* (the completed evaluations), succ (it replaced a static entry whose expiry
\* was running).
NilOptions == [nil |-> TRUE, AsWarnings |-> FALSE, Warn404 |-> FALSE]
UserFn == [remote |-> FALSE, opt |-> NilOptions]
RemoteFn(opt) == [remote |-> TRUE, opt |-> opt]

Unused ==
    [pc |-> "unused", name |-> "", static |-> FALSE, period |-> 0,
     fn |-> UserFn,
     expiry |-> 0, err |-> Nil, stopch |-> 0, left |-> 0, tick |-> 0,
     age |-> 0, given |-> Nil, evaluated |-> FALSE, last |-> Nil,
     succ |-> FALSE]

\* a periodic check that starts out healthy
NewPeriodicHealthy(e, name, period) ==
    [Unused EXCEPT !.pc = "start", !.name = name, !.period = period]

\* &check{static: false, period, fn, err: errors.New("pending"), stopch}
NewPeriodic(e, name, period) ==
    [Unused EXCEPT !.pc = "start", !.name = name, !.period = period,
                   !.err = New("pending", e)]

\* &check{static: true, expiry, err, stopch}
NewStatic(e, name, err, expiry) ==
    [Unused EXCEPT !.pc = "start", !.name = name, !.static = TRUE,
                   !.expiry = expiry, !.err = err, !.given = err]

\* a Close that sends nothing
CloseLost(c, e) == c

\* a Close without the default case: every call leaves a request to deliver
CloseBlocking(c, e) == [c EXCEPT ![e].stopch = @ + 1]

\* check.Close: a send on stopch that is dropped when the buffer is full
Close(c, e) == [c EXCEPT ![e].stopch = 1]

\* results kept per name instead of per check object
ReceiverByName(e) ==
    IF checks[ch[e].name] # NoCheck THEN checks[ch[e].name] ELSE e

\* the object a goroutine of check e stores its results in: its receiver
Receiver(e) == e

\* an entry mutex that nobody ever holds
LockedNever(e) == FALSE

\* the entry's own mutex is held exactly while its function runs (doOnce)
Locked(e) == ch[e].pc = "eval"

Exited(e) == ch[e].pc \in {"returned", "expired", "stopped", "exited"}
Active(e) == ch[e].pc \in {"start", "eval", "select", "timer", "expiring"}
Registered(e) == \E n \in Names : checks[n] = e

\* ------------------------------------------------------ the remote check
\* the RemoteOptions RegisterRemote is given (Client and Timeout only choose
\* the transport)
Options ==
    {NilOptions} \cup
    [nil : {FALSE}, AsWarnings : BOOLEAN, Warn404 : BOOLEAN]

\* the text of the error client.Do or io.ReadAll returns
TransportErrorText == "connection refused"

\* What a poll of the remote url gets: a transport error, or a status code
\* and a body which json.Unmarshal decodes into a Status (failures and
\* warnings) or rejects.
TransportError ==
    [transport |-> FALSE, sc |-> 0, json |-> FALSE, failures |-> <<>>,
     warnings |-> <<>>, body |-> ""]
Answer(sc, json, failures, warnings, body) ==
    [transport |-> TRUE, sc |-> sc, json |-> json, failures |-> failures,
     warnings |-> warnings, body |-> body]

\* the failures and warnings a remote instance of this library can report
RemoteFailures ==
    {<<>>, "error1" :> "error1 value",
     ("error1" :> "error1 value") @@ ("multi/e1" :> "e1")}
RemoteWarnings ==
    {<<>>, "warning1" :> "warning1 value", "multi/e1" :> "w"}
\* the answers of an instance of this library: 503 exactly with failures
CompatibleAnswers ==
    {Answer(IF DOMAIN f = {} THEN 200 ELSE 503, TRUE, f, w, "{...}") :
        f \in RemoteFailures, w \in RemoteWarnings}
\* the answers of other servers
OtherAnswers ==
    {Answer(sc, FALSE, <<>>, <<>>, "<html>") : sc \in {200, 404, 503}}
        \cup {Answer(503, TRUE, <<>>, w, "{}") : w \in RemoteWarnings}
RemoteResponses == {TransportError} \cup CompatibleAnswers \cup OtherAnswers

\* status codes at both ends of every range the closure tells apart, and
\* with each of them a body that does not parse and bodies that parse, with
\* and without failures and warnings
StatusCodes == {199, 200, 299, 300, 404, 499, 500, 599, 600}
ProtocolAnswers ==
    {Answer(sc, FALSE, <<>>, <<>>, "<html>") : sc \in StatusCodes}
        \cup {Answer(sc, TRUE, f, w, "{...}") :
                 sc \in StatusCodes,
                 f \in {<<>>, "error1" :> "error1 value"},
                 w \in {<<>>, "warning1" :> "warning1 value"}}

\* a test that lets every code but 4xx through to the body
UnexpectedCodeOnly4xx(sc) == sc >= 400 /\ sc < 500

\* sc < 200 || (sc >= 300 && sc < 500) || sc >= 600
UnexpectedCode(sc) == sc < 200 \/ (sc >= 300 /\ sc < 500) \/ sc >= 600

\* errorf: fmt.Errorf with nil options, Warnf with any options
Errorf(opt, msg, e) == IF opt.nil THEN New(msg, e) ELSE Warn(msg, e)

\* the ScopedMultiError built from the remote's maps: the failures first,
\* then the warnings, a warning replacing a failure under the same key
RemoteMultiError(r, asWarnings, e) ==
    [k \in DOMAIN r.failures \cup DOMAIN r.warnings |->
        IF k \in DOMAIN r.warnings THEN Warn(r.warnings[k], e)
        ELSE IF asWarnings THEN Warn(r.failures[k], e)
        ELSE New(r.failures[k], e)]

\* a message that leaves the body out
ContentsWithoutBody(sc, body) == "remote http code " \o ToString(sc)

\* the message of errorf("remote http code %d, contents:\n%s", sc, body)
Contents(sc, body) ==
    "remote http code " \o ToString(sc) \o ", contents:\n" \o body

\* a closure that returns the ScopedMultiError even when it is empty
MultiErrorEvenEmpty(me, e) == Scoped(me, e)

\* if len(me) == 0 { return nil }; return me
MultiErrorOrNil(me, e) == IF DOMAIN me = {} THEN Nil ELSE Scoped(me, e)

\* a closure that takes every answerable code for success
RemoteOKAlways(sc) == TRUE

\* remoteOK := sc < 300
RemoteOK(sc) == sc < 300

\* the function RegisterRemote registers, polled with answer r
RemotePoll(r, opt, e) ==
    LET asWarnings == ~opt.nil /\ opt.AsWarnings
        sc == r.sc
        remoteOK == RemoteOK(sc)
        contents == Contents(sc, r.body)
        me == RemoteMultiError(r, asWarnings, e)
    IN IF ~r.transport THEN New(TransportErrorText, e)
       ELSE IF UnexpectedCode(sc)
       THEN IF sc = 404 /\ ~opt.nil /\ opt.Warn404
            THEN Warn("remote healthz endpoint does not exist", e)
            ELSE Errorf(opt, "unexpected healthz http status code: "
                                \o ToString(sc), e)
       ELSE IF ~r.json
       THEN IF remoteOK THEN Nil ELSE Errorf(opt, contents, e)
       ELSE IF ~remoteOK /\ DOMAIN r.failures = {}
       THEN Errorf(opt, contents, e)
       ELSE MultiErrorOrNil(me, e)

\* ------------------------------------------------------------ the Status
NoStatus == [none |-> TRUE]
NoString == [none |-> TRUE]
NoResponse == [none |-> TRUE]

\* The thread in Status()/handle(): the names still to visit in the range
\* over c.checks and the two maps under construction.
Idle ==
    [pc |-> "idle", todo |-> {}, failures |-> EmptyMap,
     warnings |-> EmptyMap, now |-> 0]

\* ---------------------------------------------------- the runtime snapshot
\* The wall clock: on tells whether the specification follows it, now is
\* time.Now().  NewChecker runs at Epoch; the zero time.Time, which the
\* CollectedAt of a new Checker's snapshot holds, lies further back than
\* any TTL.
Epoch == RuntimeTTL + 1
ClockOff == [on |-> FALSE, now |-> Epoch]
ClockOn == [on |-> TRUE, now |-> Epoch]

\* Runtime{}: the snapshot of a new Checker
ZeroRuntime == [CollectedAt |-> 0]

\* collect(): a new snapshot, CollectedAt: time.Now()
Collect(now) == [CollectedAt |-> now]

\* a test that takes a snapshot of exactly the TTL's age for stale
StaleAtTTL(rt, now) == ~(now < rt.CollectedAt + RuntimeTTL)

\* c.runtime.CollectedAt.Add(c.runtimeTTL).Before(now)
Stale(rt, now) == rt.CollectedAt + RuntimeTTL < now

\* Status: if the stored snapshot is stale { c.runtime = collect() }
Refresh(rt, now) == IF Stale(rt, now) THEN Collect(now) ELSE rt

\* mapError: a ScopedMultiError is flattened one sub-key at a time under
\* name/key, every other error goes to warnings or to failures; on a nil
\* sub-error IsWarning is false and err.Error() is a call on a nil
\* interface, which panics
RECURSIVE mapError(_, _, _)
RECURSIVE mapScoped(_, _, _, _)
\* a flattening that forgets the name in front of the sub-key
mapScopedNoPrefix(name, m, keys, fw) ==
    IF keys = {} THEN fw
    ELSE LET key == CHOOSE k \in keys : TRUE
         IN mapScoped(name, m, keys \ {key}, mapError(key, m[key], fw))

mapScoped(name, m, keys, fw) ==
    IF keys = {} THEN fw
    ELSE LET key == CHOOSE k \in keys : TRUE
         IN mapScoped(name, m, keys \ {key},
                      mapError(name \o "/" \o key, m[key], fw))

\* a flattening that lists every leaf under failures, and a warning under
\* warnings as well
mapErrorBoth(name, err, fw) ==
    IF err.t = "sme" THEN mapScoped(name, err.m, DOMAIN err.m, fw)
    ELSE IF err.t = "nil" THEN [fw EXCEPT !.panic = TRUE]
    ELSE IF IsWarning(err)
         THEN [fw EXCEPT !.warnings = Put(fw.warnings, name, Error(err)),
                         !.failures = Put(fw.failures, name, Error(err))]
         ELSE [fw EXCEPT !.failures = Put(fw.failures, name, Error(err))]

\* mapError: the leaves of a ScopedMultiError under name/key, any other
\* error under name, in warnings if it is a Warning and in failures if not
mapError(name, err, fw) ==
    IF err.t = "sme" THEN mapScoped(name, err.m, DOMAIN err.m, fw)
    ELSE IF err.t = "nil" THEN [fw EXCEPT !.panic = TRUE]
    ELSE IF IsWarning(err)
         THEN [fw EXCEPT !.warnings = Put(fw.warnings, name, Error(err))]
         ELSE [fw EXCEPT !.failures = Put(fw.failures, name, Error(err))]

\* a label that looks at the warnings first
StatusLabelWarningFirst(failures, warnings) ==
    IF DOMAIN warnings # {} THEN StatusWarning
    ELSE IF DOMAIN failures # {} THEN StatusUnavailable
    ELSE StatusOK

StatusLabel(failures, warnings) ==
    IF DOMAIN failures # {} THEN StatusUnavailable
    ELSE IF DOMAIN warnings # {} THEN StatusWarning
    ELSE StatusOK

\* the Status literal Checker.Status returns (Since is left out, Metadata
\* is MetadataOf)
MakeStatus(failures, warnings) ==
    [Time |-> st.now,
     Runtime |-> runtime,
     OK |-> DOMAIN failures = {},
     HasWarnings |-> DOMAIN warnings # {},
     Status |-> StatusLabel(failures, warnings),
     Failures |-> failures,
     Warnings |-> warnings]

\* Status.Metadata is c.metadata itself, not a copy: what the holder of a
\* Status reads through it is the aggregator's map as it is at that moment
MetadataOf(status) == metadata

\* an encoder that takes every value
MarshalsAlways(status) == TRUE

\* json.Marshal(status) returns no error
Marshals(status) ==
    \A k \in DOMAIN MetadataOf(status) : MetadataOf(status)[k] # Unencodable

\* fmt.Fprintf(w, "internal healthz error: %v", err), the body of the
\* response when json.Marshal fails
Diagnostic == "internal healthz error: json: unsupported type: chan int"

\* a handler that answers 503 to warnings as well
ResponseCodeStrict(status) ==
    IF ~status.OK \/ status.HasWarnings
    THEN StatusServiceUnavailable ELSE StatusOKCode

\* handle: the response code chosen from the Status
ResponseCode(status) ==
    IF ~status.OK THEN StatusServiceUnavailable ELSE StatusOKCode

\* --------------------------------------------------------------- registry
\* a replacement that takes the name out and puts the new entry in later
InstallMissing(m, name, e) == [m EXCEPT ![name] = NoCheck]

\* c.checks[name] = ch
Install(m, name, e) == [m EXCEPT ![name] = e]

\* A check object that has left the registry m can no longer be read by
\* Status, and nothing can reach it once its goroutine has exited: what
\* nobody will read again is not kept (its history, its result and, of an
\* exited goroutine, everything but the name it had).
Tidy(c, m) ==
    [e \in Ids |->
        IF c[e].pc = "unused" \/ \E n \in Names : m[n] = e THEN c[e]
        ELSE IF c[e].pc \in {"returned", "expired", "stopped", "exited"}
             THEN [Unused EXCEPT !.pc = "exited", !.name = c[e].name]
             ELSE [c[e] EXCEPT !.err = Nil, !.age = 0, !.given = Nil,
                               !.succ = FALSE, !.evaluated = FALSE,
                               !.last = Nil]]

\* the stop request Register and Set send to the entry they replace
Replace(c, name) ==
    IF checks[name] # NoCheck THEN Close(c, checks[name]) ELSE c

\* history: the entry under name is static and its expiry is still running
ExpiryRunning(name) ==
    /\ checks[name] # NoCheck
    /\ ch[checks[name]].static
    /\ ch[checks[name]].age < ch[checks[name]].expiry

TypeOK ==
    /\ mutex \in {"free", "status"}
    /\ checks \in [Names -> Ids \cup {NoCheck}]
    /\ nextId \in 1 .. MaxChecks + 1
    /\ DOMAIN metadata \subseteq AllMetaKeys
    /\ st.pc \in {"idle", "reading", "returned", "responded", "panicked"}
    /\ \A e \in Ids :
          /\ ch[e].pc \in {"unused", "start", "eval", "select", "timer",
                           "expiring", "returned", "expired", "stopped",
                           "exited"}
          /\ ch[e].stopch \in {0, 1}
          /\ ch[e].tick \in {0, 1}
          /\ ch[e].left \in 0 .. 2
          /\ ch[e].age \in 0 .. ch[e].expiry
    /\ clock.on \in BOOLEAN
    /\ clock.now \in Epoch .. Epoch + MaxTime
    /\ runtime.CollectedAt \in 0 .. Epoch + MaxTime

Init ==
    /\ mutex = "free"
    /\ checks = [n \in Names |-> NoCheck]
    /\ metadata = EmptyMap
    /\ nextId = 1
    /\ ch = [e \in Ids |-> Unused]
    /\ st = Idle
    /\ ret = NoStatus
    /\ resp = NoResponse
    /\ clock = ClockOff
    /\ runtime = ZeroRuntime
    /\ str = NoString

\* NewChecker, the wall clock followed from then on
InitRuntime ==
    /\ mutex = "free"
    /\ checks = [n \in Names |-> NoCheck]
    /\ metadata = EmptyMap
    /\ nextId = 1
    /\ ch = [e \in Ids |-> Unused]
    /\ st = Idle
    /\ ret = NoStatus
    /\ resp = NoResponse
    /\ clock = ClockOn
    /\ runtime = ZeroRuntime
    /\ str = NoString

\* ------------------------------------------------- the aggregator's calls
SetMeta(name, value) ==
    /\ mutex = "free"
    /\ metadata' = Put(metadata, name, value)
    /\ UNCHANGED <<mutex, checks, nextId, ch, st, ret, resp, clock,
                   runtime, str>>

DeleteMeta(name) ==
    /\ mutex = "free"
    /\ metadata' = Delete(metadata, name)
    /\ UNCHANGED <<mutex, checks, nextId, ch, st, ret, resp, clock,
                   runtime, str>>

\* Register with a non-nil fn (a nil fn panics before anything is touched)
RegisterFn(name, p, fn) ==
    /\ mutex = "free"
    /\ nextId <= MaxChecks
    /\ checks' = Install(checks, name, nextId)
    /\ LET period == IF p = 0 THEN DefaultCheckPeriod ELSE p
       IN ch' = Tidy([Replace(ch, name) EXCEPT
                         ![nextId] = [NewPeriodic(nextId, name, period)
                                         EXCEPT !.fn = fn]],
                     checks')
    /\ nextId' = nextId + 1
    /\ UNCHANGED <<mutex, metadata, st, ret, resp, clock, runtime, str>>

\* Register called with a function of the caller
Register(name, p) == RegisterFn(name, p, UserFn)

\* RegisterRemote: http.NewRequest rejects a url it cannot parse and nothing
\* is registered; otherwise Register with the polling function
RemoteURLs == {"http://remote/healthz", "://"}
ValidURL(url) == url # "://"
RegisterRemote(name, p, url, opt) ==
    IF ValidURL(url) THEN RegisterFn(name, p, RemoteFn(opt))
    ELSE mutex = "free" /\ UNCHANGED vars

Set(name, err, expiry) ==
    /\ mutex = "free"
    /\ nextId <= MaxChecks
    /\ checks' = Install(checks, name, nextId)
    /\ ch' = Tidy([Replace(ch, name) EXCEPT
                      ![nextId] = [NewStatic(nextId, name, err, expiry)
                                      EXCEPT !.succ = ExpiryRunning(name)]],
                  checks')
    /\ nextId' = nextId + 1
    /\ UNCHANGED <<mutex, metadata, st, ret, resp, clock, runtime, str>>

\* a Deregister that stops the check and leaves it in the map
DeregisterKeepsEntry(name) ==
    /\ mutex = "free"
    /\ IF checks[name] = NoCheck
       THEN UNCHANGED ch
       ELSE ch' = Close(ch, checks[name])
    /\ UNCHANGED <<mutex, checks, metadata, nextId, st, ret, resp,
                   clock, runtime, str>>

Deregister(name) ==
    /\ mutex = "free"
    /\ IF checks[name] = NoCheck
       THEN UNCHANGED <<ch, checks>>
       ELSE /\ checks' = Install(checks, name, NoCheck)
            /\ ch' = Tidy(Close(ch, checks[name]), checks')
    /\ UNCHANGED <<mutex, metadata, nextId, st, ret, resp, clock,
                   runtime, str>>

CloseAll ==
    /\ mutex = "free"
    /\ checks' = [n \in Names |-> NoCheck]
    /\ ch' = Tidy([e \in Ids |->
                     IF Registered(e) THEN Close(ch, e)[e] ELSE ch[e]],
                  checks')
    /\ UNCHANGED <<mutex, metadata, nextId, st, ret, resp, clock,
                   runtime, str>>

\* ------------------------------------------------------- check goroutines
\* a doStatic without the test for expiry 0
NeverExpiresForgotten(e) == FALSE

\* doStatic: if c.expiry == 0 { return }
NeverExpires(e) == ch[e].expiry = 0
DoStaticReturn(e) ==
    /\ ch[e].pc = "start" /\ ch[e].static
    /\ NeverExpires(e)
    /\ ch' = Tidy([ch EXCEPT ![e].pc = "returned"], checks)
    /\ UNCHANGED <<mutex, checks, metadata, nextId, st, ret, resp,
                   clock, runtime, str>>

\* a timer that fires at once
TimerDurationZero(e) == 0

\* doStatic: time.NewTimer(c.expiry), then the select
TimerDuration(e) == ch[e].expiry
DoStaticTimer(e) ==
    /\ ch[e].pc = "start" /\ ch[e].static
    /\ ~NeverExpires(e)
    /\ ch' = [ch EXCEPT ![e].pc = "timer", ![e].left = TimerDuration(e)]
    /\ UNCHANGED <<mutex, checks, metadata, nextId, st, ret, resp,
                   clock, runtime, str>>

\* case <-t.C
TimerFire(e) ==
    /\ ch[e].pc = "timer"
    /\ ch[e].left = 0
    /\ ch' = [ch EXCEPT ![e].pc = "expiring"]
    /\ UNCHANGED <<mutex, checks, metadata, nextId, st, ret, resp,
                   clock, runtime, str>>

\* c.mutex.Lock(); c.err = Expired{expiry: c.expiry}; c.mutex.Unlock()
StoreExpired(c, e) ==
    [c EXCEPT ![Receiver(e)].err = Expired(c[e].expiry, e)]
Expire(e) ==
    /\ ch[e].pc = "expiring"
    /\ ~Locked(Receiver(e))
    /\ ch' = Tidy([StoreExpired(ch, e) EXCEPT ![e].pc = "expired"], checks)
    /\ UNCHANGED <<mutex, checks, metadata, nextId, st, ret, resp,
                   clock, runtime, str>>

\* a stop channel shared by the entries created under one name
StopRequestedByName(e) ==
    \E f \in Ids : ch[f].name = ch[e].name /\ ch[f].stopch = 1

\* <-c.stopch can receive: a request is waiting in the entry's own channel
StopRequested(e) == ch[e].stopch = 1

\* a loop that takes the stop request out of stopch and goes on
StopIgnored(e) ==
    /\ ch[e].pc \in {"timer", "select"}
    /\ StopRequested(e)
    /\ ch' = [ch EXCEPT ![e].stopch = 0]
    /\ UNCHANGED <<mutex, checks, metadata, nextId, st, ret, resp,
                   clock, runtime, str>>

\* case <-c.stopch, in doStatic and in doCallbacks, and the deferred t.Stop()
Stop(e) ==
    /\ ch[e].pc \in {"timer", "select"}
    /\ StopRequested(e)
    /\ ch' = Tidy([ch EXCEPT ![e].pc = "stopped", ![e].stopch = 0,
                             ![e].left = 0, ![e].tick = 0], checks)
    /\ UNCHANGED <<mutex, checks, metadata, nextId, st, ret, resp,
                   clock, runtime, str>>

\* a doCallbacks that waits for the first tick before it calls fn
DoCallbacksWaitsForTick(e) ==
    /\ ch[e].pc = "start" /\ ~ch[e].static
    /\ ch' = [ch EXCEPT ![e].pc = "select", ![e].left = ch[e].period]
    /\ UNCHANGED <<mutex, checks, metadata, nextId, st, ret, resp,
                   clock, runtime, str>>

\* doCallbacks: time.NewTicker(c.period), then doOnce locks the entry and
\* calls fn
DoCallbacks(e) ==
    /\ ch[e].pc = "start" /\ ~ch[e].static
    /\ ch' = [ch EXCEPT ![e].pc = "eval", ![e].left = ch[e].period]
    /\ UNCHANGED <<mutex, checks, metadata, nextId, st, ret, resp,
                   clock, runtime, str>>

\* a doOnce that drops what fn returned
StoreResultDropped(c, e, r) == c

\* doOnce: c.err = c.fn(), fn having returned r
StoreResult(c, e, r) == [c EXCEPT ![Receiver(e)].err = r]
\* doOnce: fn returns r; c.err = r; the deferred Unlock
FnReturn(e, r) ==
    /\ ch[e].pc = "eval"
    /\ ch' = Tidy([StoreResult(ch, e, r) EXCEPT
                      ![e].pc = "select",
                      ![e].evaluated = TRUE, ![e].last = r],
                  checks)
    /\ UNCHANGED <<mutex, checks, metadata, nextId, st, ret, resp,
                   clock, runtime, str>>

\* doOnce of a remote check: the poll got the answer r
RemoteReturn(e, r) ==
    /\ ch[e].fn.remote
    /\ FnReturn(e, RemotePoll(r, ch[e].fn.opt, e))

\* case <-t.C of the ticker, then doOnce locks the entry and calls fn
Tick(e) ==
    /\ ch[e].pc = "select"
    /\ ch[e].tick = 1
    /\ ch' = [ch EXCEPT ![e].pc = "eval", ![e].tick = 0]
    /\ UNCHANGED <<mutex, checks, metadata, nextId, st, ret, resp,
                   clock, runtime, str>>

\* ----------------------------------------------------- Status and handle
\* c.mutex.Lock(); now := time.Now(); the refresh of the runtime snapshot;
\* the two fresh maps
StatusLock ==
    /\ st.pc = "idle"
    /\ mutex = "free"
    /\ mutex' = "status"
    /\ runtime' = IF clock.on THEN Refresh(runtime, clock.now) ELSE runtime
    /\ st' = [Idle EXCEPT !.pc = "reading",
                          !.todo = {n \in Names : checks[n] # NoCheck},
                          !.now = clock.now]
    /\ UNCHANGED <<checks, metadata, nextId, ch, ret, resp, clock, str>>

\* one iteration of the range over c.checks: check.Status() takes the
\* entry's mutex, so it waits while the entry's function runs
StatusRead(name) ==
    /\ st.pc = "reading"
    /\ name \in st.todo
    /\ ~Locked(checks[name])
    /\ LET err == ch[checks[name]].err
           fw == [failures |-> st.failures, warnings |-> st.warnings,
                  panic |-> FALSE]
           out == IF err # Nil THEN mapError(name, err, fw) ELSE fw
       IN IF out.panic
          THEN \* the panic unwinds Status: the deferred Unlock runs
               /\ st' = [Idle EXCEPT !.pc = "panicked"]
               /\ mutex' = "free"
          ELSE /\ st' = [st EXCEPT !.todo = @ \ {name},
                                   !.failures = out.failures,
                                   !.warnings = out.warnings]
               /\ UNCHANGED mutex
    /\ UNCHANGED <<checks, metadata, nextId, ch, ret, resp, clock,
                   runtime, str>>

\* a Status that returns without the deferred Unlock
StatusReturnLocked ==
    /\ st.pc = "reading"
    /\ st.todo = {}
    /\ ret' = MakeStatus(st.failures, st.warnings)
    /\ st' = [Idle EXCEPT !.pc = "returned"]
    /\ UNCHANGED <<mutex, checks, metadata, nextId, ch, resp, clock, runtime,
                   str>>

\* the return of Status() and the deferred Unlock
StatusReturn ==
    /\ st.pc = "reading"
    /\ st.todo = {}
    /\ ret' = MakeStatus(st.failures, st.warnings)
    /\ mutex' = "free"
    /\ st' = [Idle EXCEPT !.pc = "returned"]
    /\ UNCHANGED <<checks, metadata, nextId, ch, resp, clock, runtime, str>>

\* handle: the code, json.Marshal(status), the response: the JSON of the
\* Status (status, metadata) or, when Marshal fails, the diagnostic (text)
Handle ==
    /\ st.pc = "returned"
    /\ resp' = IF Marshals(ret)
               THEN [code |-> ResponseCode(ret), status |-> ret,
                     metadata |-> MetadataOf(ret), text |-> ""]
               ELSE [code |-> StatusInternalServerError,
                     status |-> NoStatus, metadata |-> EmptyMap,
                     text |-> Diagnostic]
    /\ st' = [st EXCEPT !.pc = "responded"]
    /\ UNCHANGED <<mutex, checks, metadata, nextId, ch, ret, clock,
                   runtime, str>>

\* the caller is done with the Status (and the response, when it asked for
\* one), or with the panic
Finish ==
    /\ st.pc \in {"returned", "responded", "panicked"}
    /\ st' = Idle
    /\ ret' = NoStatus
    /\ resp' = NoResponse
    /\ UNCHANGED <<mutex, checks, metadata, nextId, ch, clock, runtime, str>>

\* ------------------------------------------------------------------- time
\* One second passes: a running timer or ticker comes one second closer to
\* firing; a ticker that fires puts a tick in its channel (dropped when one
\* is already there) and starts over; the wall clock, where it is followed,
\* shows one second more.
AdvanceCheck(c, registered) ==
    LET timer == c.pc = "timer" /\ c.left > 0
        ticker == c.pc \in {"eval", "select"}
        aging == registered /\ c.static /\ c.age < c.expiry
    IN [c EXCEPT
          !.left = IF timer THEN @ - 1
                   ELSE IF ticker THEN (IF @ = 1 THEN c.period ELSE @ - 1)
                   ELSE @,
          !.tick = IF ticker /\ c.left = 1 THEN 1 ELSE @,
          !.age = IF aging THEN @ + 1 ELSE @]

Advance ==
    /\ clock.on => clock.now < Epoch + MaxTime
    /\ ch' = [e \in Ids |-> AdvanceCheck(ch[e], Registered(e))]
    /\ clock' = IF clock.on THEN [clock EXCEPT !.now = @ + 1] ELSE clock
    /\ UNCHANGED <<mutex, checks, metadata, nextId, st, ret, resp,
                   runtime, str>>

\* every step of the program, the callers using the names in N
NextOn(N) ==
    \/ \E k \in MetaKeys, v \in MetaVals : SetMeta(k, v)
    \/ \E k \in MetaKeys : DeleteMeta(k)
    \/ \E n \in N, p \in Periods : Register(n, p)
    \/ \E n \in N, d \in Expiries : \E err \in SetErrors(nextId) :
          Set(n, err, d)
    \/ \E n \in N : Deregister(n)
    \/ CloseAll
    \/ \E e \in Ids : DoStaticReturn(e)
    \/ \E e \in Ids : DoStaticTimer(e)
    \/ \E e \in Ids : TimerFire(e)
    \/ \E e \in Ids : Expire(e)
    \/ \E e \in Ids : Stop(e)
    \/ \E e \in Ids : DoCallbacks(e)
    \/ \E e \in Ids : \E r \in FnResults(e) : FnReturn(e, r)
    \/ \E e \in Ids : Tick(e)
    \/ StatusLock
    \/ \E n \in Names : StatusRead(n)
    \/ StatusReturn
    \/ Handle
    \/ Finish
    \/ Advance

\* the callers use one name
Next == NextOn({"a"})
Spec == Init /\ [][Next]_vars

\* the callers use every name
NextAll == NextOn(Names)
SpecAll == Init /\ [][NextAll]_vars

\* ---------------------------------------------- the flattening on its own
\* static checks without expiry holding every kind of error, and Status
NextFlat ==
    \/ \E err \in DeepErrors(nextId) : Set("a", err, 0)
    \/ \E e \in Ids : DoStaticReturn(e)
    \/ StatusLock
    \/ \E n \in Names : StatusRead(n)
    \/ StatusReturn
    \/ Handle
    \/ Finish
SpecFlat == Init /\ [][NextFlat]_vars

\* --------------------------------------------- several checks flattened
\* the errors Set is given: plain values, a ScopedMultiError whose sub-key
\* "z" puts its leaf under the key that the check named "a/z" uses when the
\* ScopedMultiError belongs to "a", one with a nil sub-error, and one
\* holding a ScopedMultiError
OrderErrors(e) ==
    {Nil, New("e", e), Warn("w", e),
     Scoped("z" :> New("ez", e), e), Scoped("z" :> Warn("wz", e), e),
     Scoped("x" :> Nil, e),
     Scoped(("x" :> Scoped(("x" :> Warn("w", e)) @@ ("y" :> New("e", e)), e))
               @@ ("y" :> Warn("w", e)), e)}

\* static checks without expiry under every name, and Status
NextOrder ==
    \/ \E n \in Names : \E err \in OrderErrors(nextId) : Set(n, err, 0)
    \/ \E e \in Ids : DoStaticReturn(e)
    \/ StatusLock
    \/ \E n \in Names : StatusRead(n)
    \/ StatusReturn
    \/ Handle
    \/ Finish
SpecOrder == Init /\ [][NextOrder]_vars

\* ------------------------------------------------ the metadata on its own
\* callers set and delete several metadata keys, values json cannot encode
\* included, next to static checks and Status requests
NextMeta ==
    \/ \E k \in AllMetaKeys, v \in AllMetaVals : SetMeta(k, v)
    \/ \E k \in AllMetaKeys : DeleteMeta(k)
    \/ \E err \in SetErrors(nextId) : Set("a", err, 0)
    \/ Deregister("a")
    \/ \E e \in Ids : DoStaticReturn(e)
    \/ StatusLock
    \/ \E n \in Names : StatusRead(n)
    \/ StatusReturn
    \/ Handle
    \/ Finish
SpecMeta == Init /\ [][NextMeta]_vars

\* ------------------------------------------------------ the remote check
\* remote checks are registered, polled and read; time stands still, so
\* every check is polled once
NextRemote ==
    \/ \E opt \in Options :
          RegisterRemote("a", DefaultCheckPeriod, "http://remote/healthz", opt)
    \/ \E url \in RemoteURLs :
          RegisterRemote("a", DefaultCheckPeriod, url, NilOptions)
    \/ Deregister("a")
    \/ \E e \in Ids : Stop(e)
    \/ \E e \in Ids : DoCallbacks(e)
    \/ \E e \in Ids : \E r \in RemoteResponses : RemoteReturn(e, r)
    \/ StatusLock
    \/ \E n \in Names : StatusRead(n)
    \/ StatusReturn
    \/ Handle
    \/ Finish
SpecRemote == Init /\ [][NextRemote]_vars

\* --------------------------------------------- the remote's answers
\* remote checks registered with every option are polled once, the remote
\* answering with every status code and every kind of body; what Status
\* makes of a result is computed with mapError
NextProtocol ==
    \/ \E opt \in Options :
          RegisterRemote("a", DefaultCheckPeriod, "http://remote/healthz", opt)
    \/ \E e \in Ids : DoCallbacks(e)
    \/ \E e \in Ids : \E r \in ProtocolAnswers : RemoteReturn(e, r)
SpecProtocol == Init /\ [][NextProtocol]_vars

\* ------------------------------------------ the runtime snapshot's age
\* Status requests at every moment of a wall clock that is followed, next
\* to static checks
NextRuntime ==
    \/ \E err \in SetErrors(nextId) : Set("a", err, 0)
    \/ \E e \in Ids : DoStaticReturn(e)
    \/ StatusLock
    \/ \E n \in Names : StatusRead(n)
    \/ StatusReturn
    \/ Handle
    \/ Finish
    \/ Advance
SpecRuntime == InitRuntime /\ [][NextRuntime]_vars

\* --------------------------------------------- the text of a multi-error
\* a caller calls Error() on a ScopedMultiError; str keeps the receiver,
\* the order in which the range visited the keys, and the string returned
ErrorCall(m, order) ==
    /\ str' = [none |-> FALSE, m |-> m, order |-> order,
               out |-> ScopedMultiErrorError(m, order)]
    /\ UNCHANGED <<mutex, checks, metadata, nextId, ch, st, ret, resp,
                   clock, runtime>>

NextError ==
    \E m \in ErrorMaps(NoCheck) : \E order \in Orders(DOMAIN m) :
        ErrorCall(m, order)
SpecError == Init /\ [][NextError]_vars

\* ------------------------------------------------- the check on its own
\* check.Close called on a check object, whatever its goroutine is doing
CloseCall(e) ==
    /\ ch[e].pc # "unused"
    /\ ch' = Close(ch, e)
    /\ UNCHANGED <<mutex, checks, metadata, nextId, st, ret, resp,
                   clock, runtime, str>>

\* checks are created and stop is requested on them at any moment
NextCheck ==
    \/ \E p \in Periods : Register("a", p)
    \/ \E d \in Expiries : \E err \in SetErrors(nextId) : Set("a", err, d)
    \/ \E e \in Ids : CloseCall(e)
    \/ \E e \in Ids : DoStaticReturn(e)
    \/ \E e \in Ids : DoStaticTimer(e)
    \/ \E e \in Ids : TimerFire(e)
    \/ \E e \in Ids : Expire(e)
    \/ \E e \in Ids : Stop(e)
    \/ \E e \in Ids : DoCallbacks(e)
    \/ \E e \in Ids : \E r \in FnResults(e) : FnReturn(e, r)
    \/ \E e \in Ids : Tick(e)
    \/ Advance
SpecCheck == Init /\ [][NextCheck]_vars


\* ======================================================================
\* Properties
\* ======================================================================
\* the steps of the thread in Status()/handle()
ReadStep(n) ==
    /\ st.pc = "reading" /\ n \in st.todo
    /\ st'.pc = "reading" /\ n \notin st'.todo
ReturnStep == st.pc = "reading" /\ st'.pc = "returned"
HandleStep == st.pc = "returned" /\ st'.pc = "responded"

\* what the maps f and w hold for the check named n when its result is err
RECURSIVE Reports(_, _, _, _)
Reports(n, err, f, w) ==
    CASE err.t = "nil" -> ~Has(f, n) /\ ~Has(w, n)
      [] err.t = "error" -> Has(f, n) /\ f[n] = err.msg /\ ~Has(w, n)
      [] err.t = "warning" -> Has(w, n) /\ w[n] = err.msg /\ ~Has(f, n)
      [] err.t = "expired" ->
            /\ Has(f, n) /\ ~Has(w, n)
            /\ f[n] = "status expired after " \o DurationString(err.expiry)
      [] err.t = "sme" ->
            /\ ~Has(f, n) /\ ~Has(w, n)
            /\ \A k \in DOMAIN err.m : Reports(n \o "/" \o k, err.m[k], f, w)

\* the Status returned holds the two maps the reads built
ReturnsWhatWasRead ==
    ReturnStep => ret'.Failures = st.failures /\ ret'.Warnings = st.warnings

Returned == st.pc \in {"returned", "responded"}

\* ---------------------------------------------------------------------
\* C1: every Status returned is self-consistent: OK exactly when Failures is
\* empty, HasWarnings exactly when Warnings is non-empty, and the label is
\* Unavailable with a failure, else Warning with a warning, else OK.
C1_StatusSelfConsistent ==
    Returned =>
        /\ ret.OK = (DOMAIN ret.Failures = {})
        /\ ret.HasWarnings = (DOMAIN ret.Warnings # {})
        /\ ret.Status = IF DOMAIN ret.Failures # {} THEN "Unavailable"
                        ELSE IF DOMAIN ret.Warnings # {} THEN "Warning"
                        ELSE "OK"

\* a Status with a failure and a warning has been returned
C1_Witness ==
    /\ Returned
    /\ DOMAIN ret.Failures # {} /\ DOMAIN ret.Warnings # {}
    /\ ret.Status = "Unavailable" /\ ret.HasWarnings /\ ~ret.OK

\* ---------------------------------------------------------------------
\* C2: Status() never waits for a check's evaluation function: whenever it
\* is about to read an entry, that entry's mutex is free.
C2_StatusNeverWaitsForEvaluation ==
    ~(st.pc = "reading" /\ \E n \in st.todo : Locked(checks[n]))

\* ---------------------------------------------------------------------
\* C3: two loops of checks created under the same name are never active at
\* the same time, and two of their evaluation functions never run at once.
C3_OneLoopPerName ==
    \A e1, e2 \in Ids :
        (e1 # e2 /\ ch[e1].name = ch[e2].name) =>
            /\ ~(Active(e1) /\ Active(e2))
            /\ ~(ch[e1].pc = "eval" /\ ch[e2].pc = "eval")

\* ---------------------------------------------------------------------
\* C4: whatever Status() reads for a name was stored by the check now
\* registered under it, never by a check that was replaced, and it is what
\* the returned Status reports for the name.
C4_NoValueOfReplacedEntry ==
    [][/\ \A n \in Names :
             ReadStep(n) =>
                LET err == ch[checks[n]].err
                IN /\ err # Nil => err.by = checks[n]
                   /\ Reports(n, err, st'.failures, st'.warnings)
       /\ ReturnsWhatWasRead]_vars

\* a Status was returned for the new check while the replaced check still
\* had an evaluation in flight
C4_Witness ==
    /\ st.pc = "returned"
    /\ DOMAIN ret.Failures # {}
    /\ \E e \in Ids : ~Registered(e) /\ ch[e].pc = "eval"

\* ---------------------------------------------------------------------
\* C5: a Status returned while a registered periodic check has completed no
\* evaluation holds the failure "pending" for its name and is not OK.
C5_PendingUntilFirstEvaluation ==
    [][ReturnStep =>
          \A n \in Names :
             (/\ checks[n] # NoCheck
              /\ ~ch[checks[n]].static
              /\ ~ch[checks[n]].evaluated) =>
                /\ Has(ret'.Failures, n)
                /\ ret'.Failures[n] = "pending"
                /\ ~ret'.OK]_vars

\* pending was reported while the first evaluation was running
C5_Witness ==
    /\ st.pc = "returned"
    /\ Has(ret.Failures, "a") /\ ret.Failures["a"] = "pending"
    /\ checks["a"] # NoCheck
    /\ ~ch[checks["a"]].static /\ ~ch[checks["a"]].evaluated

\* ---------------------------------------------------------------------
\* C6: once a periodic check has completed an evaluation, what Status()
\* reads for it is the result of the evaluation completed last: nothing for
\* nil, failures[name] for an error; and a Status with a failure is answered
\* with 503.
C6_ReportsLastCompletedEvaluation ==
    [][/\ \A n \in Names :
             (/\ ReadStep(n)
              /\ ~ch[checks[n]].static
              /\ ch[checks[n]].evaluated) =>
                Reports(n, ch[checks[n]].last, st'.failures, st'.warnings)
       /\ ReturnsWhatWasRead
       /\ HandleStep =>
             (DOMAIN ret.Failures # {} => resp'.code = 503)]_vars

\* the error of the last evaluation was answered with 503
C6_Witness ==
    /\ st.pc = "responded"
    /\ resp.code = 503
    /\ Has(resp.status.Failures, "a")
    /\ resp.status.Failures["a"] = "bad thing happened"

C8_OriginalUntilExpiryThenExpired ==
    [][/\ \A n \in Names :
             (/\ ReadStep(n)
              /\ ch[checks[n]].static
              /\ ch[checks[n]].expiry > 0) =>
                LET c == ch[checks[n]]
                IN /\ c.age < c.expiry =>
                        Reports(n, c.given, st'.failures, st'.warnings)
                   /\ c.pc = "expired" =>
                        Reports(n, [t |-> "expired", expiry |-> c.expiry],
                                st'.failures, st'.warnings)
       /\ ReturnsWhatWasRead]_vars

\* a check set to a warning with expiry 1s is reported expired
C8_Witness ==
    /\ st.pc = "returned"
    /\ Has(ret.Failures, "a")
    /\ ret.Failures["a"] = "status expired after 1s"
    /\ DOMAIN ret.Warnings = {}
    /\ checks["a"] # NoCheck
    /\ ch[checks["a"]].given.t = "warning"

\* ---------------------------------------------------------------------
\* C9: a check made by Set with expiry 0 keeps the error it was given for as
\* long as it is registered, and that is what Status() reads.
C9_NoExpiryWithoutDuration ==
    [][/\ \A e \in Ids :
             (Registered(e) /\ ch[e].static /\ ch[e].expiry = 0) =>
                ch[e].err = ch[e].given /\ ch[e].pc \in {"start", "returned"}
       /\ \A n \in Names :
             (/\ ReadStep(n)
              /\ ch[checks[n]].static
              /\ ch[checks[n]].expiry = 0) =>
                Reports(n, ch[checks[n]].given, st'.failures, st'.warnings)
       /\ ReturnsWhatWasRead]_vars

\* the goroutine of a check without expiry has exited and the check still
\* reports its error
C9_Witness ==
    /\ st.pc = "returned"
    /\ checks["a"] # NoCheck
    /\ ch[checks["a"]].static /\ ch[checks["a"]].expiry = 0
    /\ ch[checks["a"]].pc = "returned"
    /\ Has(ret.Failures, "a") /\ ret.Failures["a"] = "static error"

\* ---------------------------------------------------------------------
\* C10: a check made by Set that replaced a check whose expiry was still
\* running reports its own error until its own expiry has elapsed since the
\* second Set; the only other value it ever holds is its own Expired, with
\* its own duration, stored once that time has elapsed.
C10_ReplacedTimerHasNoEffect ==
    [][/\ \A e \in Ids :
             (Registered(e) /\ ch[e].static /\ ch[e].succ) =>
                \/ ch[e].err = ch[e].given
                \/ /\ ch[e].err = Expired(ch[e].expiry, e)
                   /\ ch[e].expiry > 0
                   /\ ch[e].age = ch[e].expiry
       /\ \A n \in Names :
             (/\ ReadStep(n)
              /\ ch[checks[n]].static
              /\ ch[checks[n]].succ) =>
                /\ Reports(n, ch[checks[n]].err, st'.failures, st'.warnings)
                /\ ch[checks[n]].age < ch[checks[n]].expiry =>
                      Reports(n, ch[checks[n]].given,
                              st'.failures, st'.warnings)
       /\ ReturnsWhatWasRead]_vars

\* the check of the second Set is reported expired after its own duration
C10_Witness ==
    /\ st.pc = "returned"
    /\ checks["a"] # NoCheck
    /\ ch[checks["a"]].succ
    /\ ch[checks["a"]].err = Expired(1, checks["a"])
    /\ Has(ret.Failures, "a")
    /\ ret.Failures["a"] = "status expired after 1s"

\* ---------------------------------------------------------------------
\* the keys a check named n can put in failures or warnings
EntryKeys(n) == {n, n \o "/e1", n \o "/w1"}
NoEntryFor(n, status) ==
    \A k \in EntryKeys(n) :
        ~Has(status.Failures, k) /\ ~Has(status.Warnings, k)

\* C11: Deregister(name) takes the name out of the registry and touches no
\* other name; while the name is absent a Status returned has no failure or
\* warning for it; Deregister of an absent name changes nothing at all, and
\* the call can always be made when the aggregator lock is free.
C11_DeregisterRemovesAndIsIdempotent ==
    [][/\ \A n \in Names :
             /\ Deregister(n) =>
                   /\ checks'[n] = NoCheck
                   /\ \A m \in Names \ {n} : checks'[m] = checks[m]
             /\ (checks[n] = NoCheck /\ Deregister(n)) => UNCHANGED vars
             /\ mutex = "free" => ENABLED Deregister(n)
       /\ ReturnStep =>
             \A n \in Names : checks[n] = NoCheck => NoEntryFor(n, ret')]_vars

\* a Status without entries was returned after the check named "a" had been
\* deregistered, its loop still waiting to see the stop request
C11_Witness ==
    /\ st.pc = "returned"
    /\ checks["a"] = NoCheck
    /\ NoEntryFor("a", ret) /\ ret.OK
    /\ \E e \in Ids : ch[e].name = "a" /\ Active(e) /\ ch[e].stopch = 1

\* ---------------------------------------------------------------------
\* C12: Close leaves the registry empty and the metadata as it was, and has
\* sent a stop request to every check that was registered (it is in the
\* check's channel unless the check's goroutine had already exited); a
\* Status computed on the empty registry has no failures and no warnings.
C12_CloseStopsAndEmptiesRegistry ==
    [][/\ CloseAll =>
             /\ \A n \in Names : checks'[n] = NoCheck
             /\ metadata' = metadata
             /\ \A e \in Ids :
                   Registered(e) =>
                      ch'[e].stopch = 1 \/ ch'[e].pc = "exited"
       /\ (ReturnStep /\ \A n \in Names : checks[n] = NoCheck) =>
             /\ ret'.Failures = EmptyMap /\ ret'.Warnings = EmptyMap
             /\ ret'.OK /\ ~ret'.HasWarnings]_vars

\* the registry is empty, the metadata is still there, a stopped check's
\* loop has not yet seen its stop request, and Status returned empty maps
C12_Witness ==
    /\ st.pc = "returned"
    /\ \A n \in Names : checks[n] = NoCheck
    /\ Has(metadata, "version")
    /\ ret.Failures = EmptyMap /\ ret.Warnings = EmptyMap
    /\ \E e \in Ids : ch[e].pc = "select" /\ ch[e].stopch = 1

\* ---------------------------------------------------------------------
\* C13: a stop request can be made on a check at any moment of its life
\* (before its loop runs, while it waits, after it has exited, again after a
\* first request); the call changes nothing but the stop channel, which
\* then holds one request and never more than its capacity of one, so no
\* sender ever has to wait.
C13_StopRequestNeverBlocks ==
    [][\A e \in Ids :
          /\ ch[e].pc # "unused" => ENABLED CloseCall(e)
          /\ CloseCall(e) =>
                /\ ch'[e].stopch = 1
                /\ ch'[e] = [ch[e] EXCEPT !.stopch = 1]
                /\ \A o \in Ids \ {e} : ch'[o] = ch[o]
          /\ ch'[e].stopch <= 1]_vars

\* a stop request sits in the channel of a static check whose goroutine has
\* exited on its own (no expiry, or the expiry has fired)
C13_Witness ==
    \E e \in Ids :
        /\ ch[e].static
        /\ ch[e].pc \in {"returned", "expired"}
        /\ ch[e].stopch = 1

\* ---------------------------------------------------------------------
\* C14: the response to a Status that was serialized has code 200 exactly
\* when the Status has OK true and 503 otherwise: 200 with warnings and no
\* failure, 503 with any failure, pending and expired included.
C14_CodeFollowsOK ==
    st.pc = "responded" /\ resp.code # 500 =>
        /\ resp.code = 200 <=> resp.status.OK
        /\ resp.code = 503 <=> ~resp.status.OK
        /\ DOMAIN resp.status.Failures = {} => resp.code = 200
        /\ DOMAIN resp.status.Failures # {} => resp.code = 503

\* a static check set to a warning is answered with 200
C14_Witness ==
    /\ st.pc = "responded"
    /\ resp.code = 200
    /\ DOMAIN resp.status.Warnings # {} /\ DOMAIN resp.status.Failures = {}
    /\ checks["a"] # NoCheck /\ ch[checks["a"]].static

\* ---------------------------------------------------------------------
\* the leaves of an error: the error itself, or for a scoped multi-error
\* the leaves of its sub-errors, each with the path of sub-keys leading to it
RECURSIVE LeafEntries(_, _)
LeafEntries(prefix, err) ==
    IF err.t = "sme"
    THEN UNION {LeafEntries(prefix \o "/" \o k, err.m[k]) : k \in DOMAIN err.m}
    ELSE {[key |-> prefix, err |-> err]}

LeafMessage(err) ==
    CASE err.t \in {"error", "warning"} -> err.msg
      [] err = Wrap(Warn("foo", err.by), err.by) -> "wrapped: foo"
      [] OTHER -> "wrapped: wrapped: foo"

\* the map with one entry per leaf in L
LeafMap(L) ==
    [k \in {l.key : l \in L} |->
        LeafMessage((CHOOSE l \in L : l.key = k).err)]

\* C15: what Status reads from a check named n holding a scoped multi-error
\* without nil leaves is one entry per leaf, under n/k1/.../kj, the leaves
\* that are Warnings in warnings and all others in failures, each with the
\* leaf's message, and no entry for the multi-error itself.
C15_ScopedMultiErrorFlattened ==
    [][/\ \A n \in Names :
             LET err == ch[checks[n]].err
                 L == LeafEntries(n, err)
                 W == {l \in L : l.err.t = "warning"}
             IN (/\ ReadStep(n)
                 /\ err.t = "sme"
                 /\ \A l \in L : l.err # Nil) =>
                   /\ st'.failures = LeafMap(L \ W) @@ st.failures
                   /\ st'.warnings = LeafMap(W) @@ st.warnings
                   /\ (DOMAIN err.m # {}) =>
                         ~Has(st'.failures, n) /\ ~Has(st'.warnings, n)
       /\ ReturnsWhatWasRead]_vars

\* a multi-error inside a multi-error was flattened to a/x/y
C15_Witness ==
    /\ st.pc = "returned"
    /\ Has(ret.Failures, "a/x/y") /\ ret.Failures["a/x/y"] = "e"
    /\ Has(ret.Warnings, "a/x/x") /\ ret.Warnings["a/x/x"] = "w"
    /\ Has(ret.Warnings, "a/y") /\ ret.Warnings["a/y"] = "w"
    /\ ~Has(ret.Failures, "a") /\ ~Has(ret.Failures, "a/x")

\* ---------------------------------------------------------------------
\* C16: a nil error adds nothing at any level: reading a check whose error
\* has nil leaves yields the entries of its other leaves only, and the
\* Status call goes on to return.
C16_NilContributesNothing ==
    [][/\ st.pc = "reading" => st'.pc \in {"reading", "returned"}
       /\ \A n \in Names :
             LET err == ch[checks[n]].err
                 L == {l \in LeafEntries(n, err) : l.err # Nil}
                 W == {l \in L : l.err.t = "warning"}
             IN ReadStep(n) =>
                   /\ st'.failures = LeafMap(L \ W) @@ st.failures
                   /\ st'.warnings = LeafMap(W) @@ st.warnings]_vars

\* ---------------------------------------------------------------------
\* C17: IsWarning is true of a Warning and of an error that unwraps to a
\* Warning, false of a plain error; a check whose error unwraps to a Warning
\* is listed under warnings and not under failures.
RECURSIVE UnwrapsToWarning(_)
UnwrapsToWarning(err) ==
    \/ err.t = "warning"
    \/ err.t = "wrapped" /\ UnwrapsToWarning(err.err)

C17_WrappedWarningIsWarning ==
    [][\A n \in Names :
          LET err == ch[checks[n]].err
          IN (ReadStep(n) /\ err.t # "sme" /\ err # Nil) =>
                /\ IsWarning(err) <=> UnwrapsToWarning(err)
                /\ UnwrapsToWarning(err) =>
                      Has(st'.warnings, n) /\ ~Has(st'.failures, n)
                /\ err.t = "error" =>
                      Has(st'.failures, n) /\ ~Has(st'.warnings, n)]_vars

\* ---------------------------------------------------------------------
\* C18: SetMeta(k, v) leaves metadata[k] = v, DeleteMeta(k) leaves k absent,
\* both leave every other key and every check as they were, nothing else
\* changes the metadata, and a Status returned, and a response written,
\* carry the metadata as it is then.
C18_MetadataSetAndDeleted ==
    [][/\ \A k \in AllMetaKeys :
             /\ \A v \in AllMetaVals :
                   SetMeta(k, v) =>
                      /\ Has(metadata', k) /\ metadata'[k] = v
                      /\ \A o \in AllMetaKeys \ {k} :
                            /\ Has(metadata', o) <=> Has(metadata, o)
                            /\ Has(metadata, o) => metadata'[o] = metadata[o]
                      /\ UNCHANGED <<checks, ch>>
             /\ DeleteMeta(k) =>
                   /\ ~Has(metadata', k)
                   /\ \A o \in AllMetaKeys \ {k} :
                         /\ Has(metadata', o) <=> Has(metadata, o)
                         /\ Has(metadata, o) => metadata'[o] = metadata[o]
                   /\ UNCHANGED <<checks, ch>>
       /\ metadata' # metadata =>
             \E k \in AllMetaKeys :
                DeleteMeta(k) \/ \E v \in AllMetaVals : SetMeta(k, v)
       /\ ReturnStep => MetadataOf(ret)' = metadata
       /\ (HandleStep /\ resp'.code # 500) => resp'.metadata = metadata]_vars

\* a response carries the key that is set and not the key that is absent
C18_Witness ==
    /\ st.pc = "responded"
    /\ resp.code # 500
    /\ Has(resp.metadata, "commit") /\ resp.metadata["commit"] = "1.0.0"
    /\ ~Has(resp.metadata, "version")

\* ---------------------------------------------------------------------
\* C19: while its caller holds a returned Status, none of its fields
\* changes, its metadata, failures and warnings included.
C19_ReturnedStatusImmutable ==
    [][(st.pc = "returned" /\ st'.pc = "returned") =>
          /\ ret' = ret
          /\ MetadataOf(ret)' = MetadataOf(ret)]_vars

\* ---------------------------------------------------------------------
\* C20: when a remote check registered with nil options has polled an
\* instance of this library, flattening its result under its name n gives
\* failures[n/k] = m for every entry (k, m) of the remote's failures,
\* warnings[n/k] = m for every entry (k, m) of the remote's warnings, and
\* nothing else.
C20_RemoteEntriesMirrored ==
    [][\A e \in Ids : \A r \in CompatibleAnswers :
          (RemoteReturn(e, r) /\ ch[e].fn.opt.nil /\ Registered(e)) =>
             LET n == ch[e].name
                 err == ch'[e].err
                 none == [failures |-> <<>>, warnings |-> <<>>,
                          panic |-> FALSE]
                 out == IF err # Nil THEN mapError(n, err, none) ELSE none
             IN /\ ~out.panic
                /\ out.failures =
                      [k \in {n \o "/" \o x : x \in DOMAIN r.failures} |->
                          r.failures[CHOOSE x \in DOMAIN r.failures :
                                        k = n \o "/" \o x]]
                /\ out.warnings =
                      [k \in {n \o "/" \o x : x \in DOMAIN r.warnings} |->
                          r.warnings[CHOOSE x \in DOMAIN r.warnings :
                                        k = n \o "/" \o x]]]_vars

\* ---------------------------------------------------------------------
\* the remote's map m as it is expected locally: every key behind n/
Prefixed(n, m) ==
    [k \in {n \o "/" \o x : x \in DOMAIN m} |->
        m[CHOOSE x \in DOMAIN m : k = n \o "/" \o x]]

\* the two maps Status builds from the result err of the check named n
Flattened(n, err) ==
    LET none == [failures |-> <<>>, warnings |-> <<>>, panic |-> FALSE]
    IN IF err # Nil THEN mapError(n, err, none) ELSE none

\* the remote check e is registered and its poll, answered r, returns
Polled(e) == Registered(e) /\ ch[e].pc = "eval" /\ ch'[e].pc = "select"
PollStep(e, r) == Polled(e) /\ RemoteReturn(e, r)

\* the AsWarnings option of the remote check e is set
AsWarningsSet(e) == ~ch[e].fn.opt.nil /\ ch[e].fn.opt.AsWarnings

\* C21: after a poll of an instance of this library, the remote's warnings
\* are local warnings under name/key whatever the options; with AsWarnings
\* the remote's failures are local warnings under name/key too and the
\* check adds nothing to the local failures; without AsWarnings every
\* remote failure is a local failure under name/key.
C21_AsWarningsDowngradesFailures ==
    [][\A e \in Ids : \A r \in CompatibleAnswers :
          PollStep(e, r) =>
             LET n == ch[e].name
                 out == Flattened(n, ch'[e].err)
                 f == Prefixed(n, r.failures)
                 w == Prefixed(n, r.warnings)
             IN /\ ~out.panic
                /\ \A k \in DOMAIN w :
                      Has(out.warnings, k) /\ out.warnings[k] = w[k]
                /\ IF AsWarningsSet(e)
                   THEN /\ out.failures = <<>>
                        /\ DOMAIN out.warnings = DOMAIN f \cup DOMAIN w
                        /\ \A k \in DOMAIN f \ DOMAIN w :
                              out.warnings[k] = f[k]
                   ELSE /\ out.failures = f
                        /\ out.warnings = w]_vars

\* ---------------------------------------------------------------------
\* C22: when the poll fails at transport level, the remote check's result
\* carries the transport error's text, as a warning when AsWarnings is set
\* and as a failure otherwise.
C22_TransportErrorFollowsAsWarnings ==
    [][\A e \in Ids :
          PollStep(e, TransportError) =>
             LET n == ch[e].name
                 out == Flattened(n, ch'[e].err)
                 text == n :> TransportErrorText
             IN IF AsWarningsSet(e)
                THEN out.warnings = text /\ out.failures = <<>>
                ELSE out.failures = text /\ out.warnings = <<>>]_vars

\* ---------------------------------------------------------------------
\* the answer r is a remote-protocol error: an unexpected status code, a
\* body that does not parse with a code that is not 2xx, or JSON without
\* failures with a code that is not 2xx
ProtocolError(r) ==
    /\ r.transport
    /\ \/ ~(r.sc \in 200..299 \/ r.sc \in 500..599)
       \/ r.sc \notin 200..299 /\ (~r.json \/ DOMAIN r.failures = {})

\* C23: whatever options the remote check was registered with (nil, set
\* without AsWarnings, set with AsWarnings), a remote-protocol error is
\* reported as a warning exactly when AsWarnings is set and as a failure
\* otherwise, except for status 404 with Warn404 set, which is a warning.
C23_ProtocolErrorFollowsAsWarnings ==
    [][\A e \in Ids : \A r \in OtherAnswers :
          (PollStep(e, r) /\ ProtocolError(r)) =>
             LET n == ch[e].name
                 opt == ch[e].fn.opt
                 out == Flattened(n, ch'[e].err)
                 warning == Has(out.warnings, n) /\ out.failures = <<>>
                 failure == Has(out.failures, n) /\ out.warnings = <<>>
             IN IF r.sc = 404 /\ ~opt.nil /\ opt.Warn404 THEN warning
                ELSE IF AsWarningsSet(e) THEN warning
                ELSE failure]_vars

\* ---------------------------------------------------------------------
\* the error the closure returns for an unexpected status code
UnexpectedText(sc) ==
    "unexpected healthz http status code: " \o ToString(sc)

\* C24: the remote check goes on to the body exactly for the status codes
\* 200-299 and 500-599; for every other code the result is, whatever the
\* body, one error that names the code, or the warning "remote healthz
\* endpoint does not exist" for 404 with Warn404 set.
C24_AnswerableCodes ==
    [][\A e \in Ids : Polled(e) => \A r \in ProtocolAnswers :
          RemoteReturn(e, r) =>
             LET opt == ch[e].fn.opt
                 err == ch'[e].err
                 leaf == err.t \in {"error", "warning"}
             IN IF r.sc \in 200..299 \/ r.sc \in 500..599
                THEN \* the body decides
                     /\ leaf => err.msg # UnexpectedText(r.sc)
                     /\ (r.json /\ DOMAIN r.failures # {}) =>
                           /\ err.t = "sme"
                           /\ DOMAIN err.m =
                                 DOMAIN r.failures \cup DOMAIN r.warnings
                     /\ (~r.json /\ r.sc < 300) => err = Nil
                ELSE IF r.sc = 404 /\ ~opt.nil /\ opt.Warn404
                THEN /\ err.t = "warning"
                     /\ err.msg = "remote healthz endpoint does not exist"
                ELSE leaf /\ err.msg = UnexpectedText(r.sc)]_vars

\* a registered remote check was answered 600 and holds the error for it
C24_Witness ==
    \E e \in Ids :
        /\ Registered(e) /\ ch[e].fn.remote /\ ch[e].evaluated
        /\ ch[e].err.t \in {"error", "warning"}
        /\ ch[e].err.msg = UnexpectedText(600)

\* ---------------------------------------------------------------------
\* the status code lets the closure go on to the body
Answerable(sc) == sc \in 200..299 \/ sc \in 500..599

C26_IncompatibleJSON ==
    [][\A e \in Ids : Polled(e) => \A r \in ProtocolAnswers :
          (RemoteReturn(e, r) /\ r.sc \in 500..599 /\ r.json) =>
             LET n == ch[e].name
                 err == ch'[e].err
                 out == Flattened(n, err)
                 text == n :> ("remote http code " \o ToString(r.sc)
                                  \o ", contents:\n" \o r.body)
                 f == Prefixed(n, r.failures)
                 w == Prefixed(n, r.warnings)
             IN IF DOMAIN r.failures = {}
                THEN \/ out.failures = text /\ out.warnings = <<>>
                     \/ out.warnings = text /\ out.failures = <<>>
                ELSE /\ err.t = "sme"
                     /\ DOMAIN out.failures \cup DOMAIN out.warnings
                           = DOMAIN f \cup DOMAIN w
                     /\ \A k \in DOMAIN w : out.warnings[k] = w[k]
                     /\ \A k \in DOMAIN f \ DOMAIN w :
                           IF AsWarningsSet(e) THEN out.warnings[k] = f[k]
                           ELSE out.failures[k] = f[k]]_vars

\* a registered remote check was answered 500 with JSON and holds the one
\* error for it
C26_Witness ==
    \E e \in Ids :
        /\ Registered(e) /\ ch[e].fn.remote /\ ch[e].evaluated
        /\ ch[e].err.t \in {"error", "warning"}
        /\ ch[e].err.msg = "remote http code 500, contents:\n{...}"

\* ---------------------------------------------------------------------
\* C27: when a 2xx answer parses and lists no failures and no warnings, the
\* remote check's result is nil, not an empty ScopedMultiError, and what
\* Status builds from it has no entry under the check's name or under any
\* key that starts with the name.
C27_EmptyRemoteIsHealthy ==
    [][\A e \in Ids : Polled(e) => \A r \in ProtocolAnswers :
          (/\ RemoteReturn(e, r)
           /\ r.sc \in 200..299 /\ r.json
           /\ DOMAIN r.failures = {} /\ DOMAIN r.warnings = {}) =>
             LET n == ch[e].name
                 out == Flattened(n, ch'[e].err)
             IN /\ ch'[e].err = Nil
                /\ out.failures = <<>> /\ out.warnings = <<>>]_vars

\* a registered remote check has been polled and its result is nil
C27_Witness ==
    \E e \in Ids :
        /\ Registered(e) /\ ch[e].fn.remote /\ ch[e].evaluated
        /\ ch[e].last = Nil /\ ch[e].err = Nil

\* ---------------------------------------------------------------------
\* the step of Status that takes the aggregator's mutex and reads the time
LockStep == st.pc = "idle" /\ st'.pc = "reading"

\* C28: Status collects a new runtime snapshot exactly when the stored
\* snapshot's collection time plus runtimeTTL lies before the call's time,
\* and otherwise leaves the stored snapshot as it is; the stored snapshot
\* changes in no other step than the one of Status that holds the
\* aggregator's mutex; the Status returned carries the stored snapshot,
\* which at the call's time is no older than runtimeTTL.
C28_RuntimeSnapshotRefresh ==
    [][clock.on =>
          /\ LockStep =>
                /\ mutex' = "status"
                /\ st'.now = clock.now
                /\ runtime' =
                      IF runtime.CollectedAt + RuntimeTTL < clock.now
                      THEN [CollectedAt |-> clock.now]
                      ELSE runtime
          /\ ~LockStep => runtime' = runtime
          /\ ReturnStep =>
                /\ mutex = "status"
                /\ ret'.Time = st.now
                /\ ret'.Runtime = runtime
                /\ ret'.Time - ret'.Runtime.CollectedAt \in 0 .. RuntimeTTL
      ]_vars

\* a Status was returned with the stored snapshot, collected exactly
\* runtimeTTL before the call
C28_Witness ==
    /\ clock.on
    /\ Returned
    /\ ret.Time = ret.Runtime.CollectedAt + RuntimeTTL

\* ---------------------------------------------------------------------
\* C29: when the Status cannot be serialized (a metadata value cannot be
\* encoded), the handler answers 500 with the plain-text diagnostic and no
\* Status, never 200 or 503, and leaves the registry, the checks and the
\* metadata as they were; a Status that can be serialized is never
\* answered with 500.
C29_MarshalFailureAnswers500 ==
    [][HandleStep =>
          /\ IF \E k \in DOMAIN metadata : metadata[k] = Unencodable
             THEN /\ resp'.code = 500
                  /\ resp'.text = Diagnostic
                  /\ resp'.status = NoStatus
             ELSE /\ resp'.code \in {200, 503}
                  /\ resp'.text = ""
                  /\ resp'.status = ret
          /\ UNCHANGED <<checks, ch, metadata, mutex>>]_vars

\* a request was answered 500 while a check was registered
C29_Witness ==
    /\ st.pc = "responded"
    /\ resp.code = 500
    /\ checks["a"] # NoCheck

\* ---------------------------------------------------------------------
\* the lines "key: message" of the map m for the keys K, the smallest key
\* first
RECURSIVE LinesAscending(_, _)
LinesAscending(m, K) ==
    IF K = {} THEN ""
    ELSE LET k == CHOOSE x \in K : \A y \in K : Rank(x) <= Rank(y)
             message == IF m[k] = Nil THEN "<nil>" ELSE m[k].msg
         IN "\n" \o k \o ": " \o message \o LinesAscending(m, K \ {k})

\* C30: ScopedMultiError.Error() returns "multiple errors:" followed, for
\* each sub-key in ascending lexicographic order, by a line "key: message",
\* whatever the order in which the map was visited, and exactly "multiple
\* errors:" for an empty map.
C30_ErrorTextSortedByKey ==
    ~str.none =>
       /\ str.out = "multiple errors:" \o LinesAscending(str.m, DOMAIN str.m)
       /\ DOMAIN str.m = {} => str.out = "multiple errors:"
       /\ \A o \in Orders(DOMAIN str.m) :
             ScopedMultiErrorError(str.m, o) = str.out

\* Error() was called on a map with the keys "foo" and "bar", the range
\* visiting "foo" first, and returned the text with "bar" first
C30_Witness ==
    /\ ~str.none
    /\ str.order = <<"foo", "bar">>
    /\ str.out = "multiple errors:\nbar: bar-warning\nfoo: foo-error"

\* the entries are registered, replaced, deregistered and closed while
\* their loops run
NextStop ==
    \/ \E p \in Periods : Register("a", p)
    \/ \E d \in Expiries : \E err \in SetErrors(nextId) : Set("a", err, d)
    \/ Deregister("a")
    \/ CloseAll
    \/ \E e \in Ids : DoStaticReturn(e)
    \/ \E e \in Ids : DoStaticTimer(e)
    \/ \E e \in Ids : TimerFire(e)
    \/ \E e \in Ids : Expire(e)
    \/ \E e \in Ids : Stop(e)
    \/ \E e \in Ids : DoCallbacks(e)
    \/ \E e \in Ids : \E r \in FnResults(e) : FnReturn(e, r)
    \/ \E e \in Ids : Tick(e)
    \/ Advance

\* Every goroutine that can take a step takes one (the Go scheduler), every
\* invocation of an evaluation function returns (the proviso of the
\* callers), and a select whose stop case is ready again and again takes
\* it: the runtime picks among the ready cases of a select at random.
FairLoops ==
    \A e \in Ids :
        /\ WF_vars(DoStaticReturn(e))
        /\ WF_vars(DoStaticTimer(e))
        /\ WF_vars(Expire(e))
        /\ WF_vars(DoCallbacks(e))
        /\ WF_vars(\E r \in FnResults(e) : FnReturn(e, r))
        /\ SF_vars(Stop(e))
SpecStop == Init /\ [][NextStop]_vars /\ FairLoops

\* The callers of the aggregator next to periodic entries, every goroutine
\* taking the steps it can take: the loops as in SpecStop, and the Status
\* call, whose
\* Lock of an entry's mutex succeeds once the mutex is free again and again
\* (sync.Mutex hands the mutex to a waiter that has been starved).
FairStatus ==
    /\ \A n \in Names : SF_vars(StatusRead(n))
    /\ WF_vars(StatusReturn)
NextLock ==
    \/ \E p \in Periods : Register("a", p)
    \/ Deregister("a")
    \/ CloseAll
    \/ \E k \in MetaKeys, v \in MetaVals : SetMeta(k, v)
    \/ \E k \in MetaKeys : DeleteMeta(k)
    \/ \E e \in Ids : Stop(e)
    \/ \E e \in Ids : DoCallbacks(e)
    \/ \E e \in Ids : \E r \in FnResults(e) : FnReturn(e, r)
    \/ \E e \in Ids : Tick(e)
    \/ Advance
    \/ StatusLock
    \/ \E n \in Names : StatusRead(n)
    \/ StatusReturn
    \/ Handle
    \/ Finish
SpecLock == Init /\ [][NextLock]_vars /\ FairLoops /\ FairStatus

\* ---------------------------------------------------------------------
\* the goroutine of check e calls the evaluation function
Invokes(e) == ch[e].pc # "eval" /\ ch'[e].pc = "eval"

\* C31: Register invokes no evaluation function and completes none: the
\* entry it creates has not been evaluated and its loop has yet to start,
\* and Register can return while evaluations are running.  The entry's own
\* loop invokes the function as its first step, whether or not a tick has
\* arrived, and every later invocation takes one tick of its ticker.
C31_EvaluatedByOwnLoopOnly ==
    [][/\ \A p \in Periods :
             Register("a", p) =>
                /\ \A e \in Ids : ~Invokes(e)
                /\ \A e \in Ids : ch'[e].evaluated => ch[e].evaluated
                /\ ch'[nextId].pc = "start" /\ ~ch'[nextId].evaluated
       /\ \A e \in Ids :
             /\ (ch[e].pc = "start" /\ ~ch[e].static /\ ch'[e].pc # "start")
                   => Invokes(e) /\ ch'[e].tick = ch[e].tick
             /\ Invokes(e) =>
                   \/ ch[e].pc = "start"
                   \/ ch[e].pc = "select" /\ ch[e].tick = 1 /\ ch'[e].tick = 0
      ]_vars

\* Register has returned while the function of the entry it replaced was
\* running, and the new entry's loop has invoked its function before the
\* first tick of its ticker
C31_Witness ==
    \E e, f \in Ids :
        /\ checks["a"] = f /\ e # f
        /\ ch[e].pc = "eval" /\ ch[e].name = "a"
        /\ ch[f].pc = "eval" /\ ~ch[f].evaluated
        /\ ch[f].tick = 0 /\ ch[f].left = ch[f].period


\* C32: an invocation of a periodic entry's evaluation function begins only
\* while the entry is in the registry: none begins once the Deregister,
\* the replacing Register or Set, or the Close that stopped it has returned.
C32_NoInvocationOnceStopped ==
    [][\A e \in Ids : Invokes(e) => Registered(e)]_vars


\* C33: once a stop request has been sent to an entry, its loop terminates:
\* a periodic loop at a select that takes the stop case, a static loop with
\* an expiry at the expiry or the stop, whichever its select takes.
C33_StoppedLoopTerminates ==
    \A e \in Ids : (ch[e].stopch = 1) ~> Exited(e)

\* a stop request is waiting for a periodic loop whose ticker has a tick
\* ready at the same select
C33_Witness ==
    \E e \in Ids :
        ch[e].stopch = 1 /\ ch[e].pc = "select" /\ ch[e].tick = 1


RegisteredNames == {n \in Names : checks[n] # NoCheck}
RECURSIVE FlattenIn(_, _)
FlattenIn(order, fw) ==
    IF order = <<>> THEN fw
    ELSE LET n == Head(order)
             err == ch[checks[n]].err
         IN FlattenIn(Tail(order),
                      IF err # Nil THEN mapError(n, err, fw) ELSE fw)
NoEntries == [failures |-> <<>>, warnings |-> <<>>, panic |-> FALSE]

\* C35: the failures and warnings of a Status returned are those that every
\* order of visiting the registered checks yields for the results the checks
\* hold: the order of the iteration makes no difference, two checks that
\* flatten to the same key included.
C35_IterationOrderIrrelevant ==
    [][ReturnStep =>
          \A o \in Orders(RegisteredNames) :
              /\ ret'.Failures = FlattenIn(o, NoEntries).failures
              /\ ret'.Warnings = FlattenIn(o, NoEntries).warnings]_vars


\* ---------------------------------------------------------------------
\* C36: a Status call that holds the aggregator's mutex returns and releases
\* it, however the loops of the entries interleave with it, so that every
\* caller waiting for the mutex gets it; and no loop takes or releases the
\* aggregator's mutex: it changes hands only in steps of the Status call,
\* which holds no entry's mutex when it takes it.
C36_NoDeadlock ==
    /\ (mutex = "status") ~> (mutex = "free")
    /\ [][mutex' # mutex =>
             /\ UNCHANGED ch
             /\ (mutex' = "status" => st.pc = "idle")]_vars

\* the Status call holds the aggregator's mutex and waits for the mutex of
\* an entry whose function is running and whose next tick is due already
C36_Witness ==
    /\ mutex = "status" /\ st.pc = "reading" /\ "a" \in st.todo
    /\ checks["a"] # NoCheck
    /\ ch[checks["a"]].pc = "eval" /\ ch[checks["a"]].tick = 1


\* ---------------------------------------------------------------------
\* C37: from the moment Status has returned to the handler until the
\* handler has serialized what it returned, the metadata map, which the
\* serialization reads, is not written: no SetMeta and no DeleteMeta of
\* another thread falls between the two.
C37_NoWriteWhileSerializing ==
    [][st.pc = "returned" => metadata' = metadata]_vars


\* ---------------------------------------------------------------------
\* C38: a Register or Set puts the new entry under the name in the step in
\* which it stops the old one, so the name is never without an entry and
\* never has two; it does so only while no Status call is in its range over
\* the registry, and during that range the registry stays as it is: the
\* Status call visits the names registered when it took the mutex, each
\* once, and finds under each the one entry the registry holds.
C38_ReplacementAtomic ==
    [][/\ nextId' # nextId =>
             /\ mutex = "free" /\ mutex' = "free"
             /\ \E n \in Names :
                   /\ checks'[n] = nextId
                   /\ ch'[nextId].name = n
                   /\ \A m \in Names \ {n} : checks'[m] = checks[m]
       /\ mutex = "status" => checks' = checks
       /\ LockStep => st'.todo = RegisteredNames
       /\ \A n \in Names :
             ReadStep(n) => checks[n] # NoCheck /\ ch[checks[n]].name = n
       /\ ReturnStep => st.todo = {}]_vars

\* a Status returned shows the pending result of the second entry
\* registered under the name, whose first entry has not stopped yet
C38_Witness ==
    /\ st.pc = "returned"
    /\ checks["a"] = 2 /\ Active(1) /\ ch[1].name = "a"
    /\ ch[2].err = New("pending", 2)
    /\ Has(ret.Failures, "a") /\ ret.Failures["a"] = "pending"


\* ---------------------------------------------------------------------
\* C39: an entry that is in the registry has no stop request in its channel
\* and has not been stopped, whatever requests were sent to the entries its
\* name had before: a periodic one is in its loop, a static one is waiting
\* for its own expiry, has expired or, having no expiry, has returned.
C39_StopSignalsPerEntry ==
    \A e \in Ids :
        Registered(e) =>
            /\ ch[e].stopch = 0
            /\ ~ch[e].static => ch[e].pc \in {"start", "eval", "select"}
            /\ ch[e].static =>
                  ch[e].pc \in {"start", "timer", "expiring", "expired",
                                "returned"}
            /\ (ch[e].static /\ ch[e].expiry = 0) =>
                  ch[e].pc \in {"start", "returned"}

\* the request sent to the first entry of the name is still in its channel
\* while the second entry, registered later under the name, has been
\* evaluated and waits at its select with a tick ready
C39_Witness ==
    /\ ch[1].name = "a" /\ ch[1].stopch = 1 /\ ch[1].pc = "select"
    /\ checks["a"] = 2 /\ ch[2].evaluated
    /\ ch[2].pc = "select" /\ ch[2].tick = 1


\* ---------------------------------------------------------------------
\* the leaves of the error err of the check named n: the check, the path of
\* sub-keys leading to the leaf, and the leaf; and the key of a leaf
RECURSIVE Leaves(_, _, _)
Leaves(n, path, err) ==
    IF err.t = "sme"
    THEN UNION {Leaves(n, Append(path, k), err.m[k]) : k \in DOMAIN err.m}
    ELSE {[name |-> n, path |-> path, err |-> err]}
RECURSIVE Joined(_, _)
Joined(prefix, path) ==
    IF path = <<>> THEN prefix
    ELSE Joined(prefix \o "/" \o Head(path), Tail(path))
LeafKey(l) == Joined(l.name, l.path)
NonNilLeaves ==
    {l \in UNION {Leaves(n, <<>>, ch[checks[n]].err) : n \in RegisteredNames} :
        l.err # Nil}

\* C40: when no registered name contains the separator (no sub-key does),
\* two different leaves of the registered checks have different keys; a
\* Status returned then has no key in both failures and warnings, and as
\* many entries as the checks have leaves that are not nil.
C40_FlatteningInjective ==
    [][(ReturnStep /\ RegisteredNames \cap Separated = {}) =>
          /\ \A l, m \in NonNilLeaves : l # m => LeafKey(l) # LeafKey(m)
          /\ DOMAIN ret'.Failures \cap DOMAIN ret'.Warnings = {}
          /\ Cardinality(DOMAIN ret'.Failures)
                + Cardinality(DOMAIN ret'.Warnings)
                = Cardinality(NonNilLeaves)
          /\ DOMAIN ret'.Failures \cup DOMAIN ret'.Warnings
                = {LeafKey(l) : l \in NonNilLeaves}]_vars

\* a Status returned for two checks, one with a multi-error inside a
\* multi-error and one with a plain error, has an entry for each of the
\* four leaves
C40_Witness ==
    /\ st.pc = "returned"
    /\ checks["a"] # NoCheck /\ checks["b"] # NoCheck
    /\ DOMAIN ret.Warnings = {"a/x/x", "a/y"}
    /\ DOMAIN ret.Failures = {"a/x/y", "b"}

====
